---- MODULE Spec2Model ----
(***************************************************************************)
(* Model of the UDF deployment worker (src/udf_worker/function.py) and of  *)
(* the CAI org helper (src/udf_helpers/cailab-post/function.py): its       *)
(* auth-retry wrapper and the org-creation action built on it, and the     *)
(* org-delete action (src/udf_helpers/cailab-post/delete_function.py).     *)
(*                                                                         *)
(* The worker is a single-threaded handler: every external call it makes   *)
(* (a DynamoDB update_item / get_item, a Lambda invoke) is one step of the *)
(* model, and each such call may return or raise.                          *)
(***************************************************************************)
EXTENDS Integers, Sequences, FiniteSets, TLC

\* ------------------------------------------------------------------ bounds
MaxEvents == 2          \* stream records handled in one behaviour
MaxBatch == 2           \* records in one lambda_handler batch
MaxTime == 1            \* largest value of int(time.time()) observed
MaxAttemptsBound == 5   \* largest max_attempts passed to _run_with_auth_retry

\* --------------------------------------------------------------- constants
DepIDs == {"d1"}
StatusCodes == {200, 409}
NoBody == "None"
Bodies == {"resp_body"}
Absent == "ABSENT"
Present == "PRESENT"
AbsentTime == -1
Unbound == "UNBOUND"
NoErr == "no_error"

\* The namespace_roles of the lab's configuration, and the role entry that
\* process_insert derives for a deployment's own namespace.
LabRoles == <<[namespace |-> "system", role |-> "lab_role"]>>
AdminRole(petname) == [namespace |-> petname, role |-> "ves-io-admin"]

\* An action result as returned by invoke_lambda: json of the callee.
Responses == [statusCode : StatusCodes, body : Bodies]
NoResponse == [statusCode |-> 0, body |-> NoBody]

\* One item of DEPLOYMENT_STATE_TABLE; an attribute that is not set is Absent.
EmptyItem ==
  [depID |-> Absent, labID |-> Absent, email |-> Absent, petname |-> Absent,
   ssm_base_path |-> Absent,
   deployment_status |-> Absent, create_namespace |-> Absent,
   create_user |-> Absent, cleanup_status |-> Absent,
   created_namespace |-> Absent, created_user |-> Absent,
   details |-> Absent, updated_at |-> AbsentTime]

\* The item the producer of the stream record put in the table, by shape.
InsertedItem(stored) ==
  [EmptyItem EXCEPT !.depID = Present, !.labID = Present, !.email = Present,
                    !.petname = Present,
                    !.ssm_base_path = IF stored = "base_ssm" THEN Present ELSE Absent]

\* update_deployment_state's update_item: "SET #s = :status, updated_at = :timestamp"
\* plus ", details = :details" when details is truthy; the key is upserted.
UpdateItem_AppendDetails(st, d, step, status, details, t) ==
  [st EXCEPT ![d] = [[[[@ EXCEPT !.depID = Present]
                          EXCEPT ![step] = status]
                          EXCEPT !.updated_at = t]
                          EXCEPT !.details = IF details = NoBody THEN @
                                             ELSE IF @ = Absent THEN details
                                             ELSE @ \o "; " \o details]]
UpdateItem_Overwrite(st, d, step, status, details, t) ==
  [st EXCEPT ![d] = [[[[EmptyItem EXCEPT !.depID = Present]
                          EXCEPT ![step] = status]
                          EXCEPT !.updated_at = t]
                          EXCEPT !.details = IF details # NoBody THEN details ELSE @]]
UpdateItem(st, d, step, status, details, t) ==
  [st EXCEPT ![d] = [[[[@ EXCEPT !.depID = Present]
                          EXCEPT ![step] = status]
                          EXCEPT !.updated_at = t]
                          EXCEPT !.details = IF details # NoBody THEN details ELSE @]]

\* response.get("statusCode") == 200: the only success signal of a step.
StepSucceeded_AlreadyExists(resp) == resp.statusCode \in {200, 409}
StepSucceeded(resp) == resp.statusCode = 200

\* Where process_insert goes on after recording create_namespace FAILED:
\* the else branch only prints and the function falls through to step 2.
AfterNamespaceFailed_Abort == "I_except"
AfterNamespaceFailed == "I_user_status"

\* str(created_namespace) / str(created_user)
Str(b) == IF b THEN "True" ELSE "False"

\* item.get(flag, {}).get("S") == "True"
FlagIsTrue_Truthy(it, flag) == it[flag] # Absent
FlagIsTrue(it, flag) == it[flag] = "True"

VARIABLES
  store,              \* DEPLOYMENT_STATE_TABLE: depID -> item
  now,                \* last value of int(time.time())
  envOK,              \* CREATE_*_LAMBDA_ARN and LAB_CONFIGURATION_TABLE are set
  lab,                \* the lab's settings in LAB_CONFIGURATION_TABLE
  pc,                 \* position of the worker
  remaining,          \* records of the current batch not yet handled
  handled,            \* records dispatched so far in this behaviour
  record,             \* the stream record being processed
  depID,              \* local depID (Unbound until assigned)
  user_ns,            \* lab_info["user_ns"]
  namespace_roles,    \* local namespace_roles list
  user_payload,       \* user_payload["namespace_roles"] of the user-creation invoke
  created_namespace,  \* local flag of process_insert / process_remove
  created_user,       \* local flag of process_insert / process_remove
  namespace_response, \* result of the namespace-creation invoke
  user_response,      \* result of the user-creation invoke
  item,               \* item read by process_remove
  exc,                \* the exception being handled (e)
  trace,              \* calls made by the current run, in order
  outcome,            \* how the last run ended
  nsEver200,          \* depIDs whose namespace-creation action returned 200
  userEver200,        \* depIDs whose user-creation action returned 200
  rt,                 \* state of one _run_with_auth_retry call
  up,                 \* concurrent callers of update_deployment_state
  org,                \* one run of the org-creation action (cailab-post main)
  del                 \* one run of the org-delete action (delete_function main)

locals == <<depID, user_ns, namespace_roles, user_payload, created_namespace, created_user,
            namespace_response, user_response, item, exc>>
ghosts == <<nsEver200, userEver200>>
vars == <<store, now, envOK, lab, pc, remaining, handled, record, locals, trace,
          outcome, ghosts, rt, up, org, del>>

NoRecord == [eventName |-> "NONE", dep |-> "d1", shape |-> "full"]
NoOutcome == [kind |-> "none", dep |-> "d1", result |-> "none", err |-> NoErr, skipped |-> 0]

\* ---------------------------------------------------------------- records
Call(op, name, status, code) == [op |-> op, name |-> name, status |-> status, code |-> code]

InsertRecords == [eventName : {"INSERT"}, dep : DepIDs, shape : {"full", "no_depID", "no_email"}]
RemoveRecords == [eventName : {"REMOVE"}, dep : DepIDs, shape : {"full", "no_depID"}]
OtherRecords == [eventName : {"MODIFY"}, dep : DepIDs, shape : {"full"}]

\* ------------------------------------------------------------ retry state
NoError == [kind |-> "none", status |-> 0]
RetryIdle == [pc |-> "idle", max_attempts |-> 0, allowed_successes |-> {},
              attempt |-> 0, calls |-> 0, sleeps |-> 0, last_error |-> NoError,
              results |-> << >>, raised |-> NoErr, last_op |-> "none"]

\* ------------------------------------------- callers of update_deployment_state
MaxCalls == 3           \* update_deployment_state calls in one behaviour
\* Two workers of the hosting runtime, each writing its own step names.
Workers == {"w1", "w2"}
StepsOf(w) == IF w = "w1" THEN {"create_namespace"} ELSE {"create_user"}
UpdSteps == UNION {StepsOf(w) : w \in Workers}
UpdStatuses == {"IN_PROGRESS", "SUCCESS"}
UpdDetails == {NoBody, "text1", "text2"}
NoCall == [w |-> "none", step |-> "none", status |-> "none", details |-> NoBody, t |-> 0]
UpIdle == [pending |-> [w \in Workers |-> NoCall], n |-> 0, last |-> NoCall,
           before |-> NoCall, prev |-> EmptyItem,
           written |-> [s \in UpdSteps |-> Absent]]

\* ------------------------------------------------- cailab-post main, state
\* What requests.post to /backend/v1/orgs can hand back.
PostStatuses == {200, 500}
NoOrgId == "None"
\* One run of main(payload): where it is, what provision() handed back, what
\* exists remotely and in the state table, and the result returned.
OrgIdle == [pc |-> "idle", org_id |-> NoOrgId, remote_org |-> FALSE,
            remote_id |-> NoOrgId, probe_ok |-> FALSE, recorded |-> NoOrgId,
            statusCode |-> 0]

\* ------------------------------------------------ delete_function main, state
MaxPages == 2           \* pages a scan of the state table is answered in
\* The org records of the state table; record_provisioned_org writes one item
\* per org_id, with the email and petname it was created for.
Orgs == {"org1", "org2", "org3"}
\* Where the records matching the tagged email and petname lie: the page of
\* the scan that holds the item, NoPage for an item that does not match.
NoPage == 0
Tables == [Orgs -> {NoPage} \cup (1..MaxPages)]
\* What requests.delete to /backend/v1/orgs/{org_id} can hand back.
DeleteStatuses == {200, 404}
\* One run of main(payload): where it is, the table it scans, the scan's
\* position and matches, the delete requests issued and the result returned.
DelIdle == [pc |-> "idle", table |-> [o \in Orgs |-> NoPage], page |-> 0,
            matches |-> {}, looked |-> FALSE, org_id |-> NoOrgId,
            deletes |-> << >>, response |-> 0, statusCode |-> 0]

\* ------------------------------------------------------------------- Init
Init ==
  /\ store = [d \in DepIDs |-> EmptyItem]
  /\ now = 0
  /\ envOK \in BOOLEAN
  /\ lab \in [user_ns : BOOLEAN, namespace_roles : {LabRoles}, borrowed : {FALSE}]
  /\ pc = "idle"
  /\ remaining = 0
  /\ handled = 0
  /\ record = NoRecord
  /\ depID = Unbound
  /\ user_ns = FALSE
  /\ namespace_roles = << >>
  /\ user_payload = << >>
  /\ created_namespace = FALSE
  /\ created_user = FALSE
  /\ namespace_response = NoResponse
  /\ user_response = NoResponse
  /\ item = EmptyItem
  /\ exc = NoErr
  /\ trace = << >>
  /\ outcome = NoOutcome
  /\ nsEver200 = {}
  /\ userEver200 = {}
  /\ rt = RetryIdle
  /\ up = UpIdle
  /\ org = OrgIdle
  /\ del = DelIdle

\* --------------------------------------------------- update_deployment_state
\* The update_item call succeeds: the item is updated with the current time.
UpdateOK(step, status, details) ==
  \E t \in {now, IF now < MaxTime THEN now + 1 ELSE now} :
    /\ now' = t
    /\ store' = UpdateItem(store, depID, step, status, details, t)
    /\ trace' = Append(trace, Call("update", step, status, 0))

\* The update_item call raises: update_deployment_state raises RuntimeError.
UpdateRaises(step, status) ==
  /\ UNCHANGED <<store, now>>
  /\ trace' = Append(trace, Call("update_raises", step, status, 0))

\* update_deployment_state(depID, step, status, details) inside a try block:
\* continue at `next`, or go to the except clause at `handler`.
UpdateStep(step, status, details, next, handler) ==
  \/ /\ UpdateOK(step, status, details)
     /\ pc' = next
     /\ exc' = exc
  \/ /\ UpdateRaises(step, status)
     /\ pc' = handler
     /\ exc' = "StoreError"

\* invoke_lambda(function_name, payload): a response, or RuntimeError.
InvokeReturns(name, resp) ==
  trace' = Append(trace, Call("invoke", name, "returned", resp.statusCode))

InvokeRaises(name) ==
  trace' = Append(trace, Call("invoke", name, "raised", 0))

\* ------------------------------------------------------------ lambda_handler
\* The runtime calls lambda_handler with a batch of n records.
LambdaHandler(n) ==
  /\ pc = "idle"
  /\ handled < MaxEvents
  /\ pc' = "next_record"
  /\ remaining' = n
  /\ UNCHANGED <<store, now, envOK, lab, handled, record, locals, trace, outcome, ghosts, rt, up, org, del>>

\* The state table as the producer of the stream record left it.
TableAfter(r, stored, deleted) ==
  IF r.eventName = "INSERT" /\ r.shape # "no_depID" /\ stored # "none"
       /\ store[r.dep].depID = Absent
    THEN [store EXCEPT ![r.dep] = InsertedItem(stored)]
  ELSE IF r.eventName = "REMOVE" /\ r.shape # "no_depID" /\ deleted
    THEN [store EXCEPT ![r.dep] = EmptyItem]
  ELSE store

\* if record["eventName"] == "INSERT": process_insert(record)
\* elif record["eventName"] == "REMOVE": process_remove(record)
\* and nothing for any other eventName: the loop goes on.
Dispatch_ElseRemove(eventName) ==
  IF eventName = "INSERT" THEN "I_parse" ELSE "R_parse"
Dispatch(eventName) ==
  IF eventName = "INSERT" THEN "I_parse"
  ELSE IF eventName = "REMOVE" THEN "R_parse"
  ELSE "next_record"

\* for record in event["Records"]: dispatch on record["eventName"].
NextRecord(r, stored, deleted) ==
  /\ pc = "next_record"
  /\ remaining > 0
  /\ handled < MaxEvents
  /\ handled' = handled + 1
  /\ record' = r
  /\ store' = TableAfter(r, stored, deleted)
  /\ pc' = Dispatch(r.eventName)
  /\ IF Dispatch(r.eventName) # "next_record"
       THEN /\ trace' = << >>
            /\ outcome' = NoOutcome
            /\ UNCHANGED remaining
       ELSE /\ remaining' = remaining - 1
            /\ UNCHANGED <<trace, outcome>>
  /\ UNCHANGED <<now, envOK, lab, locals, ghosts, rt, up, org, del>>

\* The loop over event["Records"] is exhausted: lambda_handler returns.
HandlerReturn ==
  /\ pc = "next_record"
  /\ remaining = 0 \/ handled >= MaxEvents
  /\ pc' = "idle"
  /\ remaining' = 0
  /\ UNCHANGED <<store, now, envOK, lab, handled, record, locals, trace, outcome, ghosts, rt, up, org, del>>

\* A workflow returned normally: the loop goes on with the next record.
Returned(kind) ==
  /\ pc' = "next_record"
  /\ remaining' = remaining - 1
  /\ outcome' = [kind |-> kind, dep |-> record.dep, result |-> "returned",
                 err |-> NoErr, skipped |-> 0]

\* A workflow raised: the exception leaves lambda_handler, the rest of the
\* batch is not processed.
Raised_ContinueBatch(kind, err) ==
  /\ pc' = "next_record"
  /\ remaining' = remaining - 1
  /\ outcome' = [kind |-> kind, dep |-> record.dep, result |-> "raised",
                 err |-> err, skipped |-> 0]
Raised(kind, err) ==
  /\ pc' = "idle"
  /\ remaining' = 0
  /\ outcome' = [kind |-> kind, dep |-> record.dep, result |-> "raised",
                 err |-> err, skipped |-> remaining - 1]

\* The except clause of process_insert / process_remove:
\* update_deployment_state(depID, field, "FAILED", str(e)); raise
ExceptClause(kind, field) ==
  IF depID = Unbound
    THEN /\ Raised(kind, "UnboundLocalError")
         /\ UNCHANGED <<store, now, trace>>
    ELSE \/ /\ UpdateOK(field, "FAILED", exc)
            /\ Raised(kind, exc)
         \/ /\ UpdateRaises(field, "FAILED")
            /\ Raised(kind, "StoreError")

\* ------------------------------------------------------------ process_insert
\* new_image = record["dynamodb"]["NewImage"]; depID, labID, email, petname;
\* created_namespace = False; created_user = False
InsertParse ==
  /\ pc = "I_parse"
  /\ created_namespace' = FALSE
  /\ created_user' = FALSE
  /\ namespace_response' = NoResponse
  /\ user_response' = NoResponse
  /\ namespace_roles' = << >>
  /\ user_payload' = << >>
  /\ user_ns' = FALSE
  /\ IF record.shape = "no_depID"
       THEN depID' = Unbound /\ exc' = "KeyError" /\ pc' = "I_except"
       ELSE IF record.shape = "no_email"
       THEN depID' = record.dep /\ exc' = "KeyError" /\ pc' = "I_except"
       ELSE depID' = record.dep /\ exc' = NoErr /\ pc' = "I_status"
  /\ UNCHANGED <<store, now, envOK, lab, remaining, handled, record, item, trace,
                 outcome, ghosts, rt, up, org, del>>

\* update_deployment_state(depID, "deployment_status", "IN_PROGRESS", "Starting deployment")
InsertStatus ==
  /\ pc = "I_status"
  /\ UpdateStep("deployment_status", "IN_PROGRESS", "Starting deployment",
                "I_config", "I_except")
  /\ UNCHANGED <<envOK, lab, remaining, handled, record, depID, user_ns,
                 namespace_roles, user_payload, created_namespace, created_user,
                 namespace_response, user_response, item, outcome, ghosts, rt, up, org, del>>

\* petname = new_image["petname"]["S"]: every deployment has its own petname;
\* the k-th record dispatched stands for the k-th deployment.
petname == handled

\* What get_lab_info(labID) hands back: the lab's settings, which are static
\* per labID (or an exception, see InsertConfig). The object handed back is
\* either built anew from the configuration or the configuration object the
\* collaborator keeps and reuses across deployments.
get_lab_info ==
  {[user_ns |-> lab.user_ns, namespace_roles |-> LabRoles, reused |-> FALSE],
   [user_ns |-> lab.user_ns, namespace_roles |-> lab.namespace_roles, reused |-> TRUE]}

\* namespace_roles.append({"namespace": petname, "role": "ves-io-admin"}):
\* the list is changed in place, so a list borrowed from the configuration
\* object changes there too.
AppendInPlace(l, roles) ==
  IF l.borrowed THEN [l EXCEPT !.namespace_roles = roles] ELSE l

\* if user_ns: the namespace step runs only for labs with a user namespace.
NamespaceStepApplies_Always(lab_info) == TRUE
NamespaceStepApplies(lab_info) == lab_info.user_ns

\* invoke_lambda raising inside the try block leaves for the except clause.
OnNamespaceInvokeError_Continue == "I_user_status"
OnNamespaceInvokeError_Retry == "I_ns_invoke"
OnNamespaceInvokeError == "I_except"

\* if not CREATE_NAMESPACE_LAMBDA or not CREATE_USER_LAMBDA or not
\* LAB_CONFIGURATION_TABLE: raise RuntimeError
EnvMissing_Ignored(ok) == FALSE
EnvMissing(ok) == ~ok

\* The environment check, then lab_info = get_lab_info(labID) and its fields.
InsertConfig ==
  /\ pc = "I_config"
  /\ \/ /\ EnvMissing(envOK)
        /\ exc' = "EnvError"
        /\ pc' = "I_except"
        /\ UNCHANGED <<user_ns, namespace_roles, lab>>
     \/ /\ ~EnvMissing(envOK)
        /\ exc' = "LabInfoError"
        /\ pc' = "I_except"
        /\ UNCHANGED <<user_ns, namespace_roles, lab>>
     \/ /\ ~EnvMissing(envOK)
        /\ \E lab_info \in get_lab_info :
             /\ user_ns' = lab_info.user_ns
             /\ namespace_roles' = lab_info.namespace_roles
             /\ lab' = [lab EXCEPT !.borrowed = lab_info.reused]
             /\ pc' = IF NamespaceStepApplies(lab_info) THEN "I_ns_status"
                      ELSE "I_user_status"
        /\ exc' = exc
  /\ UNCHANGED <<store, now, envOK, remaining, handled, record, depID,
                 user_payload, created_namespace, created_user, namespace_response,
                 user_response, item, trace, outcome, ghosts, rt, up, org, del>>

\* update_deployment_state(depID, "create_namespace", "IN_PROGRESS", "Creating namespace")
InsertNsStatus ==
  /\ pc = "I_ns_status"
  /\ UpdateStep("create_namespace", "IN_PROGRESS", "Creating namespace",
                "I_ns_invoke", "I_except")
  /\ UNCHANGED <<envOK, lab, remaining, handled, record, depID, user_ns,
                 namespace_roles, user_payload, created_namespace, created_user,
                 namespace_response, user_response, item, outcome, ghosts, rt, up, org, del>>

\* namespace_response = invoke_lambda(CREATE_NAMESPACE_LAMBDA, namespace_payload)
InsertNsInvoke ==
  /\ pc = "I_ns_invoke"
  /\ \/ \E resp \in Responses :
          /\ InvokeReturns("create_namespace", resp)
          /\ namespace_response' = resp
          /\ nsEver200' = IF resp.statusCode = 200 THEN nsEver200 \cup {depID}
                          ELSE nsEver200
          /\ pc' = "I_ns_result"
          /\ exc' = exc
     \/ /\ InvokeRaises("create_namespace")
        /\ exc' = "InvokeError"
        /\ pc' = OnNamespaceInvokeError
        /\ UNCHANGED <<namespace_response, nsEver200>>
  /\ UNCHANGED <<store, now, envOK, lab, remaining, handled, record, depID, user_ns,
                 namespace_roles, user_payload, created_namespace, created_user,
                 user_response, item, outcome, userEver200, rt, up, org, del>>

\* if namespace_response.get("statusCode") == 200: SUCCESS, append the admin
\* role, created_namespace = True; else: FAILED.
InsertNsResult ==
  /\ pc = "I_ns_result"
  /\ IF StepSucceeded(namespace_response)
       THEN /\ UpdateStep("create_namespace", "SUCCESS", namespace_response.body,
                          "I_user_status", "I_except")
            /\ IF pc' = "I_user_status"
                 THEN /\ namespace_roles' = Append(namespace_roles, AdminRole(petname))
                      /\ lab' = AppendInPlace(lab, namespace_roles')
                      /\ created_namespace' = TRUE
                 ELSE UNCHANGED <<namespace_roles, lab, created_namespace>>
       ELSE /\ UpdateStep("create_namespace", "FAILED", namespace_response.body,
                          AfterNamespaceFailed, "I_except")
            /\ UNCHANGED <<namespace_roles, lab, created_namespace>>
  /\ UNCHANGED <<envOK, remaining, handled, record, depID, user_ns, user_payload, created_user,
                 namespace_response, user_response, item, outcome, ghosts, rt, up, org, del>>

\* update_deployment_state(depID, "create_user", "IN_PROGRESS", "Creating user")
InsertUserStatus ==
  /\ pc = "I_user_status"
  /\ UpdateStep("create_user", "IN_PROGRESS", "Creating user",
                "I_user_invoke", "I_except")
  /\ UNCHANGED <<envOK, lab, remaining, handled, record, depID, user_ns,
                 namespace_roles, user_payload, created_namespace, created_user,
                 namespace_response, user_response, item, outcome, ghosts, rt, up, org, del>>

\* user_payload = {..., "namespace_roles": namespace_roles};
\* user_response = invoke_lambda(CREATE_USER_LAMBDA, user_payload)
InsertUserInvoke ==
  /\ pc = "I_user_invoke"
  /\ user_payload' = namespace_roles
  /\ \/ \E resp \in Responses :
          /\ InvokeReturns("create_user", resp)
          /\ user_response' = resp
          /\ userEver200' = IF resp.statusCode = 200 THEN userEver200 \cup {depID}
                            ELSE userEver200
          /\ pc' = "I_user_result"
          /\ exc' = exc
     \/ /\ InvokeRaises("create_user")
        /\ exc' = "InvokeError"
        /\ pc' = "I_except"
        /\ UNCHANGED <<user_response, userEver200>>
  /\ UNCHANGED <<store, now, envOK, lab, remaining, handled, record, depID, user_ns,
                 namespace_roles, created_namespace, created_user,
                 namespace_response, item, outcome, nsEver200, rt, up, org, del>>

\* if user_response.get("statusCode") == 200: SUCCESS, created_user = True;
\* else: FAILED.
InsertUserResult ==
  /\ pc = "I_user_result"
  /\ IF StepSucceeded(user_response)
       THEN /\ UpdateStep("create_user", "SUCCESS", user_response.body,
                          "I_flag_ns", "I_except")
            /\ created_user' = (pc' = "I_flag_ns")
       ELSE /\ UpdateStep("create_user", "FAILED", user_response.body,
                          "I_flag_ns", "I_except")
            /\ UNCHANGED created_user
  /\ UNCHANGED <<envOK, lab, remaining, handled, record, depID, user_ns,
                 namespace_roles, user_payload, created_namespace, namespace_response,
                 user_response, item, outcome, ghosts, rt, up, org, del>>

\* update_deployment_state(depID, "created_namespace", str(created_namespace))
InsertFlagNs ==
  /\ pc = "I_flag_ns"
  /\ UpdateStep("created_namespace", Str(created_namespace), NoBody,
                "I_flag_user", "I_except")
  /\ UNCHANGED <<envOK, lab, remaining, handled, record, depID, user_ns,
                 namespace_roles, user_payload, created_namespace, created_user,
                 namespace_response, user_response, item, outcome, ghosts, rt, up, org, del>>

\* update_deployment_state(depID, "created_user", str(created_user)); return
InsertFlagUser ==
  /\ pc = "I_flag_user"
  /\ \/ /\ UpdateOK("created_user", Str(created_user), NoBody)
        /\ Returned("insert")
        /\ exc' = exc
     \/ /\ UpdateRaises("created_user", Str(created_user))
        /\ pc' = "I_except"
        /\ exc' = "StoreError"
        /\ UNCHANGED <<remaining, outcome>>
  /\ UNCHANGED <<envOK, lab, handled, record, depID, user_ns, namespace_roles, user_payload,
                 created_namespace, created_user, namespace_response,
                 user_response, item, ghosts, rt, up, org, del>>

\* except Exception as e:
\*   update_deployment_state(depID, "deployment_status", "FAILED", str(e)); raise
InsertExcept ==
  /\ pc = "I_except"
  /\ ExceptClause("insert", "deployment_status")
  /\ UNCHANGED <<envOK, lab, handled, record, locals, ghosts, rt, up, org, del>>

\* ------------------------------------------------------------ process_remove
\* The removal steps in the order process_remove runs them.
RemovalOrder_AsCreated == <<"namespace", "user">>
RemovalOrder == <<"user", "namespace">>

\* if created_user: / if created_namespace:
Applicable(step, cu, cn) == IF step = "user" THEN cu ELSE cn

\* Each removal step starts by marking cleanup_status IN_PROGRESS.
StepStart_NoMark(step) == IF step = "user" THEN "R_user_invoke" ELSE "R_ns_invoke"
StepStart(step) == IF step = "user" THEN "R_user_status" ELSE "R_ns_status"

\* The first applicable removal step at position k or later, or the final write.
RemovalFrom(k, cu, cn) ==
  LET todo == {i \in k..Len(RemovalOrder) : Applicable(RemovalOrder[i], cu, cn)}
  IN  IF todo = {} THEN "R_completed"
      ELSE StepStart(RemovalOrder[CHOOSE i \in todo : \A j \in todo : i <= j])

\* Where process_remove goes on after the invoke of a removal step returned.
AfterStep(step, cu, cn) ==
  RemovalFrom((CHOOSE i \in DOMAIN RemovalOrder : RemovalOrder[i] = step) + 1, cu, cn)

\* invoke_lambda's result is discarded: any statusCode lets the teardown go on.
RemovalAccepted_Only200(resp) == resp.statusCode = 200
RemovalAccepted(resp) == TRUE

\* depID = record["dynamodb"]["Keys"]["depID"]["S"]; item = get_item(...).get("Item", {});
\* created_namespace / created_user read from the item's flags.
RemoveGet ==
  /\ pc = "R_parse"
  /\ UNCHANGED <<user_ns, namespace_roles, user_payload, namespace_response, user_response>>
  /\ IF record.shape = "no_depID"
       THEN /\ depID' = Unbound
            /\ exc' = "KeyError"
            /\ pc' = "R_except"
            /\ UNCHANGED <<item, created_namespace, created_user, trace>>
       ELSE /\ depID' = record.dep
            /\ \/ /\ trace' = Append(trace, Call("get_item", "state", "raised", 0))
                  /\ exc' = "GetItemError"
                  /\ pc' = "R_except"
                  /\ UNCHANGED <<item, created_namespace, created_user>>
               \/ /\ trace' = Append(trace, Call("get_item", "state", "returned", 0))
                  /\ item' = store[record.dep]
                  /\ created_namespace' = FlagIsTrue(store[record.dep], "created_namespace")
                  /\ created_user' = FlagIsTrue(store[record.dep], "created_user")
                  /\ exc' = NoErr
                  /\ pc' = RemovalFrom(1, created_user', created_namespace')
  /\ UNCHANGED <<store, now, envOK, lab, remaining, handled, record, outcome, ghosts, rt, up, org, del>>

\* update_deployment_state(depID, "cleanup_status", "IN_PROGRESS", "Removing user")
RemoveUserStatus ==
  /\ pc = "R_user_status"
  /\ UpdateStep("cleanup_status", "IN_PROGRESS", "Removing user",
                "R_user_invoke", "R_except")
  /\ UNCHANGED <<envOK, lab, remaining, handled, record, depID, user_ns,
                 namespace_roles, user_payload, created_namespace, created_user,
                 namespace_response, user_response, item, outcome, ghosts, rt, up, org, del>>

\* user_payload = {item["ssm_base_path"], item["email"]};
\* invoke_lambda(REMOVE_USER_LAMBDA, user_payload)
RemoveUserInvoke ==
  /\ pc = "R_user_invoke"
  /\ IF item.ssm_base_path = Absent \/ item.email = Absent
       THEN /\ exc' = "KeyError"
            /\ pc' = "R_except"
            /\ UNCHANGED trace
       ELSE \/ \E resp \in Responses :
                 /\ InvokeReturns("remove_user", resp)
                 /\ IF RemovalAccepted(resp)
                      THEN /\ pc' = AfterStep("user", created_user, created_namespace)
                           /\ exc' = exc
                      ELSE /\ pc' = "R_except"
                           /\ exc' = "ActionFailed"
            \/ /\ InvokeRaises("remove_user")
               /\ exc' = "InvokeError"
               /\ pc' = "R_except"
  /\ UNCHANGED <<store, now, envOK, lab, remaining, handled, record, depID, user_ns,
                 namespace_roles, user_payload, created_namespace, created_user,
                 namespace_response, user_response, item, outcome, ghosts, rt, up, org, del>>

\* update_deployment_state(depID, "cleanup_status", "IN_PROGRESS", "Removing namespace")
RemoveNsStatus ==
  /\ pc = "R_ns_status"
  /\ UpdateStep("cleanup_status", "IN_PROGRESS", "Removing namespace",
                "R_ns_invoke", "R_except")
  /\ UNCHANGED <<envOK, lab, remaining, handled, record, depID, user_ns,
                 namespace_roles, user_payload, created_namespace, created_user,
                 namespace_response, user_response, item, outcome, ghosts, rt, up, org, del>>

\* namespace_payload = {item["ssm_base_path"], item["petname"]};
\* invoke_lambda(REMOVE_NAMESPACE_LAMBDA, namespace_payload)
RemoveNsInvoke ==
  /\ pc = "R_ns_invoke"
  /\ IF item.ssm_base_path = Absent \/ item.petname = Absent
       THEN /\ exc' = "KeyError"
            /\ pc' = "R_except"
            /\ UNCHANGED trace
       ELSE \/ \E resp \in Responses :
                 /\ InvokeReturns("remove_namespace", resp)
                 /\ IF RemovalAccepted(resp)
                      THEN /\ pc' = AfterStep("namespace", created_user, created_namespace)
                           /\ exc' = exc
                      ELSE /\ pc' = "R_except"
                           /\ exc' = "ActionFailed"
            \/ /\ InvokeRaises("remove_namespace")
               /\ exc' = "InvokeError"
               /\ pc' = "R_except"
  /\ UNCHANGED <<store, now, envOK, lab, remaining, handled, record, depID, user_ns,
                 namespace_roles, user_payload, created_namespace, created_user,
                 namespace_response, user_response, item, outcome, ghosts, rt, up, org, del>>

\* update_deployment_state(depID, "cleanup_status", "COMPLETED", "Cleanup completed successfully")
RemoveCompleted ==
  /\ pc = "R_completed"
  /\ \/ /\ UpdateOK("cleanup_status", "COMPLETED", "Cleanup completed successfully")
        /\ Returned("remove")
        /\ exc' = exc
     \/ /\ UpdateRaises("cleanup_status", "COMPLETED")
        /\ pc' = "R_except"
        /\ exc' = "StoreError"
        /\ UNCHANGED <<remaining, outcome>>
  /\ UNCHANGED <<envOK, lab, handled, record, depID, user_ns, namespace_roles, user_payload,
                 created_namespace, created_user, namespace_response,
                 user_response, item, ghosts, rt, up, org, del>>

\* except Exception as e:
\*   update_deployment_state(depID, "cleanup_status", "FAILED", str(e)); raise
RemoveExcept ==
  /\ pc = "R_except"
  /\ ExceptClause("remove", "cleanup_status")
  /\ UNCHANGED <<envOK, lab, handled, record, locals, ghosts, rt, up, org, del>>

\* ------------------------------------------------------------------- Next
Next ==
  \/ \E n \in 1..MaxBatch : LambdaHandler(n)
  \/ \E r \in InsertRecords \cup RemoveRecords \cup OtherRecords,
        stored \in {"none", "base", "base_ssm"}, deleted \in BOOLEAN :
       NextRecord(r, stored, deleted)
  \/ HandlerReturn
  \/ InsertParse
  \/ InsertStatus
  \/ InsertConfig
  \/ InsertNsStatus
  \/ InsertNsInvoke
  \/ InsertNsResult
  \/ InsertUserStatus
  \/ InsertUserInvoke
  \/ InsertUserResult
  \/ InsertFlagNs
  \/ InsertFlagUser
  \/ InsertExcept
  \/ RemoveGet
  \/ RemoveUserStatus
  \/ RemoveUserInvoke
  \/ RemoveNsStatus
  \/ RemoveNsInvoke
  \/ RemoveCompleted
  \/ RemoveExcept

Spec == Init /\ [][Next]_vars

\* ------------------------------------------------------ _run_with_auth_retry
DEFAULT_MAX_ATTEMPTS == 5
ProbeStatuses == {200, 201, 401, 403, 500}
RequestException == 0     \* the probe raised requests.RequestException
ProbeResults == ProbeStatuses \cup {RequestException}
RetryableStatuses_ServerErrors == {401, 403, 500}
RetryableStatuses == {401, 403}

\* allowed_successes = success_statuses or {200}
AllowedSuccesses(success_statuses) ==
  IF success_statuses = {} THEN {200} ELSE success_statuses

\* A call of _run_with_auth_retry(request_fn, max_attempts=n, success_statuses=s).
RetryStart(n, s) ==
  /\ rt.pc = "idle"
  /\ rt' = [RetryIdle EXCEPT !.pc = "call", !.max_attempts = n,
                             !.allowed_successes = AllowedSuccesses(s),
                             !.attempt = 1]
  /\ UNCHANGED <<store, now, envOK, lab, pc, remaining, handled, record, locals,
                 trace, outcome, ghosts, up, org, del>>

\* if attempt < max_attempts: log and time.sleep(delay_seconds)
ShouldSleep_Inclusive(r) == r.attempt <= r.max_attempts
ShouldSleep_Never(r) == FALSE
ShouldSleep(r) == r.attempt < r.max_attempts

\* for attempt in range(1, max_attempts + 1): the next iteration, or the
\* raise that follows the loop.
LoopNext(r) ==
  IF r.attempt + 1 <= r.max_attempts
    THEN [r EXCEPT !.attempt = @ + 1, !.pc = "call"]
    ELSE [r EXCEPT !.pc = "raised", !.raised = "exhausted"]

\* How one attempt ends, given what request_fn did.
AfterAttempt(r, res) ==
  LET called == [r EXCEPT !.calls = @ + 1, !.results = Append(@, res),
                          !.last_op = "call"]
      retry(err) ==
        IF ShouldSleep(r)
          THEN [called EXCEPT !.last_error = err, !.pc = "sleep"]
          ELSE LoopNext([called EXCEPT !.last_error = err])
  IN  IF res = RequestException
        THEN retry([kind |-> "request_exception", status |-> 0])
      ELSE IF res \in r.allowed_successes
        THEN [called EXCEPT !.pc = "returned"]
      ELSE IF res \notin RetryableStatuses
        THEN [called EXCEPT !.pc = "raised", !.raised = "request_failed"]
      ELSE retry([kind |-> "auth_not_ready", status |-> res])

\* One iteration of the loop body: response = request_fn(...) and the checks.
RetryAttempt(res) ==
  /\ rt.pc = "call"
  /\ rt' = AfterAttempt(rt, res)
  /\ UNCHANGED <<store, now, envOK, lab, pc, remaining, handled, record, locals,
                 trace, outcome, ghosts, up, org, del>>

\* time.sleep(delay_seconds), then the loop goes on.
RetrySleep ==
  /\ rt.pc = "sleep"
  /\ rt' = LoopNext([rt EXCEPT !.sleeps = @ + 1, !.last_op = "sleep"])
  /\ UNCHANGED <<store, now, envOK, lab, pc, remaining, handled, record, locals,
                 trace, outcome, ghosts, up, org, del>>

NextRetry ==
  \/ \E n \in 1..MaxAttemptsBound, s \in {{}, {200, 201}} : RetryStart(n, s)
  \/ \E res \in ProbeResults : RetryAttempt(res)
  \/ RetrySleep

SpecRetry == Init /\ [][NextRetry]_vars


\* ------------------------------------ update_deployment_state, concurrently
\* Worker w enters update_deployment_state(d, step, status, details): the
\* update expression and its values are built, int(time.time()) is read.
UpdBegin(w, step, status, details) ==
  /\ up.pending[w] = NoCall
  /\ up.n < MaxCalls
  /\ \E t \in {now, IF now < MaxTime THEN now + 1 ELSE now} :
       /\ now' = t
       /\ up' = [up EXCEPT !.n = @ + 1,
                           !.pending[w] = [w |-> w, step |-> step, status |-> status,
                                           details |-> details, t |-> t]]
  /\ UNCHANGED <<store, envOK, lab, pc, remaining, handled, record, locals, trace,
                 outcome, ghosts, rt, org, del>>

\* dynamodb.update_item of worker w is applied to the item of d, atomically.
UpdCommit(w, d) ==
  /\ up.pending[w] # NoCall
  /\ LET c == up.pending[w] IN
       /\ store' = UpdateItem(store, d, c.step, c.status, c.details, c.t)
       /\ up' = [up EXCEPT !.pending[w] = NoCall, !.last = c, !.before = up.last,
                           !.prev = store[d], !.written[c.step] = c.status]
  /\ UNCHANGED <<now, envOK, lab, pc, remaining, handled, record, locals, trace,
                 outcome, ghosts, rt, org, del>>

\* dynamodb.update_item of worker w raises: RuntimeError, nothing is written.
UpdFails(w) ==
  /\ up.pending[w] # NoCall
  /\ up' = [up EXCEPT !.pending[w] = NoCall]
  /\ UNCHANGED <<store, now, envOK, lab, pc, remaining, handled, record, locals,
                 trace, outcome, ghosts, rt, org, del>>

NextUpdate ==
  \/ \E w \in Workers, status \in UpdStatuses, details \in UpdDetails :
       \E step \in StepsOf(w) : UpdBegin(w, step, status, details)
  \/ \E w \in Workers, d \in DepIDs : UpdCommit(w, d)
  \/ \E w \in Workers : UpdFails(w)

SpecUpdate == Init /\ [][NextUpdate]_vars


\* -------------------------------------------------------- cailab-post main
\* except Exception as e: return {"statusCode": 500, "body": f"Error: {e}"}
OrgError(o) == [o EXCEPT !.pc = "done", !.statusCode = 500]

\* provision()'s `except Exception: return None`, after which main skips the
\* recording (`if org_id:` is false) and builds res with statusCode 200.
OrgProvisionFailed(o) == [o EXCEPT !.pc = "done", !.org_id = NoOrgId, !.statusCode = 200]

\* validate_payload, the ENV check, add_udflab_tag and get_parameters: any of
\* them raising ends main in its except clause.
OrgStart(valid, params_ok) ==
  /\ org.pc = "idle"
  /\ rt = RetryIdle
  /\ org' = IF valid /\ params_ok THEN [org EXCEPT !.pc = "post"] ELSE OrgError(org)
  /\ UNCHANGED <<store, now, envOK, lab, pc, remaining, handled, record, locals,
                 trace, outcome, ghosts, rt, up, del>>

\* _create_demo_org_and_validate_org up to the probe: requests.post (which
\* may raise), status_code >= 400 raises, a response without a token value
\* raises; data.get("id") may be missing.
OrgPost(res, has_id, has_token) ==
  /\ org.pc = "post"
  /\ org' = IF res = RequestException \/ res >= 400
              THEN OrgProvisionFailed(org)
            ELSE LET made == [org EXCEPT !.remote_org = TRUE, !.remote_id = "org1"]
                 IN  IF ~has_token THEN OrgProvisionFailed(made)
                     ELSE [made EXCEPT !.pc = "probe",
                                       !.org_id = IF has_id THEN "org1" ELSE NoOrgId]
  /\ UNCHANGED <<store, now, envOK, lab, pc, remaining, handled, record, locals,
                 trace, outcome, ghosts, rt, up, del>>

\* _run_org_post_creation_requests: _run_with_auth_retry(_fetch_org_details)
\* with the default max_attempts and success_statuses.
OrgProbe ==
  /\ org.pc = "probe"
  /\ RetryStart(DEFAULT_MAX_ATTEMPTS, {})
  /\ UNCHANGED org

\* The retry wrapper returned: provision returns org_id; it raised: provision
\* returns None.
OrgAfterProbe ==
  /\ org.pc = "probe"
  /\ rt.pc \in {"returned", "raised"}
  /\ org' = IF rt.pc = "returned"
              THEN [org EXCEPT !.probe_ok = TRUE,
                               !.pc = IF org.org_id # NoOrgId THEN "record" ELSE "done",
                               !.statusCode = IF org.org_id # NoOrgId THEN 0 ELSE 200]
              ELSE OrgProvisionFailed(org)
  /\ rt' = RetryIdle
  /\ UNCHANGED <<store, now, envOK, lab, pc, remaining, handled, record, locals,
                 trace, outcome, ghosts, up, del>>

\* if org_id: record_provisioned_org(org_id, email, petname), whose put_item
\* may raise; then res = {"statusCode": 200, ...}.
OrgRecord(put_ok) ==
  /\ org.pc = "record"
  /\ org' = IF put_ok
              THEN [org EXCEPT !.pc = "done", !.recorded = org.org_id, !.statusCode = 200]
              ELSE OrgError(org)
  /\ UNCHANGED <<store, now, envOK, lab, pc, remaining, handled, record, locals,
                 trace, outcome, ghosts, rt, up, del>>

NextOrg ==
  \/ \E valid \in BOOLEAN, params_ok \in BOOLEAN : OrgStart(valid, params_ok)
  \/ \E res \in PostStatuses \cup {RequestException}, has_id \in BOOLEAN,
        has_token \in BOOLEAN : OrgPost(res, has_id, has_token)
  \/ OrgProbe
  \/ \E res \in ProbeResults : org.pc = "probe" /\ RetryAttempt(res)
  \/ org.pc = "probe" /\ RetrySleep
  \/ OrgAfterProbe
  \/ \E put_ok \in BOOLEAN : OrgRecord(put_ok)

SpecOrg == Init /\ [][NextOrg]_vars


\* ---------------------------------------------------- delete_function main
\* except Exception as e: return {"statusCode": 500, "body": f"Error: {e}"}
DelError(d) == [d EXCEPT !.pc = "done", !.statusCode = 500]

\* if len(matches) > 1: break -- the scan stops as soon as a second match is in.
EnoughMatches_First(n) == n >= 1
EnoughMatches(n) == n > 1

\* The end of _lookup_org_id and main's use of it: None -> 404 is returned;
\* more than one match -> RuntimeError; else matches[0].get("org_id").
LookupDone(d) ==
  LET found == [d EXCEPT !.looked = TRUE] IN
  IF d.matches = {} THEN [found EXCEPT !.pc = "done", !.statusCode = 404]
  ELSE IF Cardinality(d.matches) > 1 THEN DelError(found)
  ELSE [found EXCEPT !.pc = "delete", !.org_id = CHOOSE o \in d.matches : TRUE]

\* validate_payload, the ENV check, add_udflab_tag and get_parameters: any of
\* them raising ends main in its except clause. table is the state table as
\* the run finds it.
DelStart(valid, params_ok, table) ==
  /\ del.pc = "idle"
  /\ del' = IF valid /\ params_ok
              THEN [del EXCEPT !.pc = "scan", !.table = table, !.page = 1]
              ELSE DelError([del EXCEPT !.table = table])
  /\ UNCHANGED <<store, now, envOK, lab, pc, remaining, handled, record, locals,
                 trace, outcome, ghosts, rt, up, org>>

\* One turn of the while loop of _lookup_org_id: table.scan (which may raise)
\* answers one page; its Items extend matches; the loop ends on a second
\* match or when the response has no LastEvaluatedKey.
DelScan(scan_ok) ==
  /\ del.pc = "scan"
  /\ del' = IF ~scan_ok THEN DelError(del)
            ELSE LET items == {o \in Orgs : del.table[o] = del.page}
                     got == [del EXCEPT !.matches = @ \cup items]
                 IN  IF EnoughMatches(Cardinality(got.matches)) \/ del.page = MaxPages
                       THEN LookupDone(got)
                       ELSE [got EXCEPT !.page = @ + 1]
  /\ UNCHANGED <<store, now, envOK, lab, pc, remaining, handled, record, locals,
                 trace, outcome, ghosts, rt, up, org>>

\* _delete_org(org_id, ...): requests.delete (which may raise); a status
\* >= 400 raises RuntimeError; else main returns statusCode 200.
DelDelete(res) ==
  /\ del.pc = "delete"
  /\ LET sent == [del EXCEPT !.deletes = Append(@, del.org_id), !.response = res]
     IN  del' = IF res = RequestException \/ res >= 400
                  THEN DelError(sent)
                  ELSE [sent EXCEPT !.pc = "done", !.statusCode = 200]
  /\ UNCHANGED <<store, now, envOK, lab, pc, remaining, handled, record, locals,
                 trace, outcome, ghosts, rt, up, org>>

NextDelete ==
  \/ \E valid \in BOOLEAN, params_ok \in BOOLEAN, table \in Tables :
       DelStart(valid, params_ok, table)
  \/ \E scan_ok \in BOOLEAN : DelScan(scan_ok)
  \/ \E res \in DeleteStatuses \cup {RequestException} : DelDelete(res)

SpecDelete == Init /\ [][NextDelete]_vars

\* ================================================================= claims
\* Calls of the current run, by kind.
Invocations(name) ==
  {i \in DOMAIN trace : trace[i].op = "invoke" /\ trace[i].name = name}
ReturnedWith(name, code) ==
  \E i \in Invocations(name) : trace[i].status = "returned" /\ trace[i].code = code
IsUpdateOf(c, step, status) ==
  c.op \in {"update", "update_raises"} /\ c.name = step /\ c.status = status
CallRaised(c) ==
  c.op = "update_raises" \/ (c.op \in {"invoke", "get_item"} /\ c.status = "raised")
\* None of the k calls that follow call i raised.
NoneRaised(i, k) == \A j \in (i + 1)..(i + k) : ~CallRaised(trace[j])
InsertRunEnded == outcome.kind = "insert"
RemoveRunEnded == outcome.kind = "remove"

\* C1: when the namespace-creation action returns a non-200 result, the next
\* call of process_insert is the create_namespace FAILED write, and once that
\* write is done the run goes on with the user step: create_user IN_PROGRESS,
\* the user-creation invoke, and create_user written SUCCESS exactly when the
\* user action's own statusCode is 200. A run in which the namespace action
\* failed is never aborted by that failure: if it raises, a store write or the
\* user invoke raised.
C1_NonFatalStepIsolation ==
  \A i \in Invocations("create_namespace") :
    (trace[i].status = "returned" /\ trace[i].code # 200) =>
      /\ Len(trace) = i => pc = "I_ns_result"
      /\ Len(trace) > i => IsUpdateOf(trace[i + 1], "create_namespace", "FAILED")
      /\ (Len(trace) = i + 1 /\ NoneRaised(i, 1)) => pc = "I_user_status"
      /\ (Len(trace) > i + 1 /\ NoneRaised(i, 1)) =>
            IsUpdateOf(trace[i + 2], "create_user", "IN_PROGRESS")
      /\ (Len(trace) = i + 2 /\ NoneRaised(i, 2)) => pc = "I_user_invoke"
      /\ (Len(trace) > i + 2 /\ NoneRaised(i, 2)) =>
            (trace[i + 3].op = "invoke" /\ trace[i + 3].name = "create_user")
      /\ (Len(trace) = i + 3 /\ NoneRaised(i, 3)) => pc = "I_user_result"
      /\ (Len(trace) > i + 3 /\ NoneRaised(i, 3)) =>
            IsUpdateOf(trace[i + 4], "create_user",
                       IF trace[i + 3].code = 200 THEN "SUCCESS" ELSE "FAILED")
      /\ (InsertRunEnded /\ outcome.result = "returned") =>
            /\ store[outcome.dep].create_namespace = "FAILED"
            /\ store[outcome.dep].create_user =
                 IF ReturnedWith("create_user", 200) THEN "SUCCESS" ELSE "FAILED"
      /\ (InsertRunEnded /\ outcome.result = "raised") =>
            \E j \in DOMAIN trace : j > i /\ CallRaised(trace[j])

\* C1 witness: a run ended normally in which the namespace action returned 409
\* and the user action returned 200 and was recorded SUCCESS.
C1_Witness ==
  /\ InsertRunEnded
  /\ outcome.result = "returned"
  /\ ReturnedWith("create_namespace", 409)
  /\ ReturnedWith("create_user", 200)
  /\ store[outcome.dep].create_namespace = "FAILED"
  /\ store[outcome.dep].create_user = "SUCCESS"

\* C2: process_remove invokes the namespace-removal action only when the
\* created_namespace field of the record it read is "True", and the
\* user-removal action only when created_user is "True", whatever the
\* create_namespace / create_user step statuses of that record are.
C2_FlagsDriveTeardown ==
  /\ (Invocations("remove_namespace") # {} \/ pc \in {"R_ns_status", "R_ns_invoke"})
       => item.created_namespace = "True"
  /\ (Invocations("remove_user") # {} \/ pc \in {"R_user_status", "R_user_invoke"})
       => item.created_user = "True"

\* C2 witness: a teardown that read a record whose create_namespace step is
\* SUCCESS but whose created_namespace flag is not "True" ran to its end
\* without invoking the namespace-removal action.
C2_Witness ==
  /\ RemoveRunEnded
  /\ outcome.result = "returned"
  /\ item.create_namespace = "SUCCESS"
  /\ item.created_namespace # "True"
  /\ Invocations("remove_namespace") = {}

\* C3: a record holds created_namespace = "True" only if the
\* namespace-creation action returned statusCode 200 for that deployment,
\* and created_user = "True" only if the user-creation action returned 200.
C3_FlagsOnlyAfterSuccess ==
  \A d \in DepIDs :
    /\ store[d].created_namespace = "True" => d \in nsEver200
    /\ store[d].created_user = "True" => d \in userEver200

\* C3 witness: a record with created_namespace "True" and created_user "False".
C3_Witness ==
  \E d \in DepIDs :
    /\ store[d].created_namespace = "True"
    /\ store[d].created_user = "False"

\* C4: after process_insert ends, normally or by raising, the record's
\* created_namespace is "True" whenever the namespace-creation action returned
\* 200 in that run.
C4_FlagsPersistedEveryRun ==
  (InsertRunEnded /\ ReturnedWith("create_namespace", 200))
    => store[outcome.dep].created_namespace = "True"

\* C5: after an INSERT with user_ns true in which both creation actions
\* returned 200, the record has created_namespace and created_user "True", no
\* step FAILED, and deployment_status is no longer IN_PROGRESS.
C5_ScenarioA ==
  (/\ InsertRunEnded
   /\ outcome.result = "returned"
   /\ ReturnedWith("create_namespace", 200)
   /\ ReturnedWith("create_user", 200))
    => /\ store[outcome.dep].created_namespace = "True"
       /\ store[outcome.dep].created_user = "True"
       /\ store[outcome.dep].create_namespace # "FAILED"
       /\ store[outcome.dep].create_user # "FAILED"
       /\ store[outcome.dep].deployment_status # "IN_PROGRESS"

\* The deployment_status a record holds after a run in which every step
\* succeeded (the workflow writes it once, at line 69).
StatusWhenAllSucceed == "IN_PROGRESS"

\* C6: when the namespace action returns 200 and the user action a non-200
\* status, the final record has created_user false, create_namespace SUCCESS,
\* create_user FAILED, and a deployment_status that differs from the one
\* reached when every step succeeds.
C6_ScenarioB_Provisioning ==
  (/\ InsertRunEnded
   /\ outcome.result = "returned"
   /\ ReturnedWith("create_namespace", 200)
   /\ ReturnedWith("create_user", 409))
    => /\ store[outcome.dep].created_user = "False"
       /\ store[outcome.dep].create_namespace = "SUCCESS"
       /\ store[outcome.dep].create_user = "FAILED"
       /\ store[outcome.dep].deployment_status # StatusWhenAllSucceed

\* The record read by process_remove is the inserted record (depID, labID,
\* email, petname) plus what process_insert wrote, with created_namespace
\* true and created_user false.
ScenarioBRecord(it) ==
  /\ it.depID = Present /\ it.labID = Present
  /\ it.email = Present /\ it.petname = Present
  /\ it.ssm_base_path = Absent
  /\ it.created_namespace = "True"
  /\ it.created_user = "False"

\* C7: a REMOVE event for such a record invokes the namespace-removal action
\* exactly once, does not invoke the user-removal action, and ends with
\* cleanup_status COMPLETED.
C7_ScenarioB_Teardown ==
  (RemoveRunEnded /\ depID # Unbound /\ ScenarioBRecord(item)
     /\ \A i \in DOMAIN trace : ~CallRaised(trace[i]))
    => /\ Cardinality(Invocations("remove_namespace")) = 1
       /\ Invocations("remove_user") = {}
       /\ store[outcome.dep].cleanup_status = "COMPLETED"

\* C8: a REMOVE event whose depID has no record in the state store makes
\* process_remove fail with a record-not-found condition, invoke no removal
\* action and write nothing to the store (no record is created).
C8_ScenarioC_UnknownDepID ==
  (/\ RemoveRunEnded
   /\ \E i \in DOMAIN trace : trace[i].op = "get_item" /\ trace[i].status = "returned"
   /\ item.depID = Absent)
    => /\ outcome.result = "raised"
       /\ Invocations("remove_user") = {}
       /\ Invocations("remove_namespace") = {}
       /\ \A i \in DOMAIN trace : trace[i].op # "update"
       /\ store[outcome.dep].depID = Absent

StepFields == {"create_namespace", "create_user", "deployment_status", "cleanup_status"}

\* C9: over any sequence of INSERT and REMOVE events, a step field that is
\* SUCCESS or FAILED is never written back to IN_PROGRESS.
C9_StatusOnlyMovesForward ==
  [][\A d \in DepIDs : \A f \in StepFields :
       store[d][f] \in {"SUCCESS", "FAILED"} => store'[d][f] # "IN_PROGRESS"]_vars

\* Every call of the probe so far returned 401 or 403.
AlwaysAuthNotReady ==
  \A i \in DOMAIN rt.results : rt.results[i] \in RetryableStatuses

\* C10: with max_attempts = N >= 1 and a probe that returns 401 or 403 on
\* every call, _run_with_auth_retry calls the probe exactly N times, sleeps
\* exactly N - 1 times, never after the last attempt, and then raises the
\* terminal failure that carries the last observed error.
C10_RetryBound ==
  (rt.pc # "idle" /\ AlwaysAuthNotReady) =>
    /\ rt.calls <= rt.max_attempts
    /\ rt.sleeps <= rt.max_attempts - 1
    /\ rt.pc # "returned"
    /\ rt.pc = "raised" =>
         /\ rt.calls = rt.max_attempts
         /\ rt.sleeps = rt.max_attempts - 1
         /\ rt.last_op = "call"
         /\ rt.raised = "exhausted"
         /\ rt.last_error = [kind |-> "auth_not_ready",
                             status |-> rt.results[Len(rt.results)]]
    /\ rt.pc \in {"call", "sleep"} =>
         /\ rt.calls < rt.max_attempts
         /\ rt.sleeps = IF rt.pc = "call" THEN rt.calls ELSE rt.calls - 1

\* C10 witness: the default of 5 attempts exhausted by a probe that answered
\* 403 every time.
C10_Witness ==
  /\ rt.pc = "raised"
  /\ rt.max_attempts = DEFAULT_MAX_ATTEMPTS
  /\ rt.results = <<403, 403, 403, 403, 403>>
  /\ rt.sleeps = 4

\* The result of the latest probe call (0 calls: none).
LastResult == rt.results[Len(rt.results)]
\* A status that is neither a success nor 401/403 (and not a transport error).
Terminal(res) ==
  /\ res # RequestException
  /\ res \notin rt.allowed_successes
  /\ res \notin {401, 403}

\* C11: a probe result that is neither in the success set nor 401/403 on
\* attempt k ends the call with an error after exactly k invocations and with
\* no sleep after that attempt; a 401 or 403 on an attempt k < max_attempts is
\* followed by one sleep and then another invocation.
C11_NarrowRetryability ==
  /\ (rt.results # << >> /\ Terminal(LastResult)) =>
        /\ rt.pc = "raised"
        /\ rt.raised = "request_failed"
        /\ rt.calls = Len(rt.results)
        /\ rt.calls = rt.attempt
        /\ rt.sleeps = rt.calls - 1
        /\ rt.last_op = "call"
  /\ \A k \in DOMAIN rt.results :
       (rt.results[k] \in {401, 403} /\ k < rt.max_attempts) =>
          IF k = Len(rt.results)
            THEN \/ rt.pc = "sleep" /\ rt.sleeps = k - 1
                 \/ rt.pc = "call" /\ rt.sleeps = k /\ rt.attempt = k + 1
            ELSE rt.sleeps >= k
  /\ \A k \in DOMAIN rt.results : k < Len(rt.results) => ~Terminal(rt.results[k])

\* C11 witness: 401 on the first attempt was retried, 500 on the second ended
\* the call after two invocations and one sleep.
C11_Witness ==
  /\ rt.pc = "raised"
  /\ rt.results = <<401, 500>>
  /\ rt.sleeps = 1

\* Every attempt before the latest one returned 401/403 or raised a
\* transport error.
EarlierAttemptsRetryable ==
  \A i \in DOMAIN rt.results :
    i < Len(rt.results) => rt.results[i] \in {401, 403, RequestException}

\* C12: when the first k - 1 attempts return 401/403 or raise a transport
\* error and attempt k returns a status of the success set, the call returns
\* without error after exactly k invocations and k - 1 sleeps, and the probe
\* is not invoked after a success result.
C12_RetrySuccessPath ==
  /\ (rt.results # << >> /\ LastResult # RequestException
        /\ LastResult \in rt.allowed_successes /\ EarlierAttemptsRetryable) =>
        /\ rt.pc = "returned"
        /\ rt.raised = NoErr
        /\ rt.calls = Len(rt.results)
        /\ rt.sleeps = rt.calls - 1
        /\ rt.calls <= rt.max_attempts
  /\ \A i \in DOMAIN rt.results :
       (rt.results[i] # RequestException /\ rt.results[i] \in rt.allowed_successes)
         => i = Len(rt.results)
  /\ rt.pc = "returned" => LastResult \in rt.allowed_successes

\* C12 witness: a transport error, then 403, then 201 accepted as a success.
C12_Witness ==
  /\ rt.pc = "returned"
  /\ rt.results = <<RequestException, 403, 201>>
  /\ rt.sleeps = 2

\* C13: when the lab configuration has user_ns false, process_insert never
\* invokes the namespace-creation action and never writes the
\* create_namespace step field, it persists created_namespace as "False", and
\* no later event for the depID makes created_namespace "True" or invokes the
\* namespace-removal action.
C13_SkipOnConfig ==
  ~lab.user_ns =>
    /\ pc \notin {"I_ns_status", "I_ns_invoke", "I_ns_result", "R_ns_status", "R_ns_invoke"}
    /\ \A i \in DOMAIN trace :
         trace[i].name \notin {"create_namespace", "remove_namespace"}
    /\ \A d \in DepIDs :
         /\ store[d].create_namespace = Absent
         /\ store[d].created_namespace # "True"
    /\ (InsertRunEnded /\ outcome.result = "returned") =>
         store[outcome.dep].created_namespace = "False"

\* C13 witness: in a lab without user namespaces, a teardown ran to its end
\* on a record that process_insert had left with created_namespace "False"
\* and created_user "True".
C13_Witness ==
  /\ ~lab.user_ns
  /\ RemoveRunEnded
  /\ outcome.result = "returned"
  /\ item.created_namespace = "False"
  /\ item.created_user = "True"
  /\ Invocations("remove_user") # {}

\* The call before call i of the run is the successful write of step = status.
PrecededByWrite(i, step, status) ==
  /\ i > 1
  /\ trace[i - 1] = Call("update", step, status, 0)

\* C14: in any run of process_insert each step's IN_PROGRESS write precedes
\* that step's action invocation, the namespace step's SUCCESS or FAILED write
\* precedes the create_user IN_PROGRESS write and the user-creation
\* invocation, and the user-creation action is never invoked while
\* create_namespace is IN_PROGRESS in the store.
C14_OutcomePersistedBeforeNextStep ==
  /\ \A i \in Invocations("create_namespace") :
       PrecededByWrite(i, "create_namespace", "IN_PROGRESS")
  /\ \A j \in Invocations("create_user") :
       /\ PrecededByWrite(j, "create_user", "IN_PROGRESS")
       /\ Invocations("create_namespace") # {} =>
            \E k \in 1..(j - 2) :
              /\ trace[k].op = "update"
              /\ trace[k].name = "create_namespace"
              /\ trace[k].status \in {"SUCCESS", "FAILED"}
              /\ \A i \in Invocations("create_namespace") : i < k
  /\ pc = "I_ns_invoke" => store[depID].create_namespace = "IN_PROGRESS"
  /\ pc \in {"I_user_invoke", "I_user_result"} =>
       /\ store[depID].create_namespace # "IN_PROGRESS"
       /\ store[depID].create_user = "IN_PROGRESS"

\* C14 witness: handling the second record of a behaviour, the user-creation
\* invoke returned after create_namespace SUCCESS had been written.
C14_Witness ==
  /\ pc = "I_user_result"
  /\ handled = 2
  /\ ReturnedWith("create_namespace", 200)
  /\ store[depID].create_namespace = "SUCCESS"
  /\ store[depID].deployment_status = "IN_PROGRESS"

\* No state-store call of the current run raised.
NoStoreFailure ==
  \A i \in DOMAIN trace :
    trace[i].op # "update_raises" /\ ~(trace[i].op = "get_item" /\ trace[i].status = "raised")

\* C15: for any error raised during process_insert (here: every error other
\* than a failure of the state store itself), the workflow ends with
\* deployment_status = FAILED recorded with the original error text as
\* details, and the original error is re-raised to lambda_handler.
C15_ProvisioningErrorHandling ==
  (InsertRunEnded /\ outcome.result = "raised" /\ NoStoreFailure) =>
    /\ store[outcome.dep].deployment_status = "FAILED"
    /\ store[outcome.dep].details = exc
    /\ outcome.err = exc

\* invoke_lambda raised during the namespace step of the current run.
NamespaceInvokeRaised ==
  \E i \in Invocations("create_namespace") : trace[i].status = "raised"

\* C16: in every run each creation action is invoked at most once; when
\* invoke_lambda raises during the namespace step, the namespace-creation
\* action has been invoked exactly once, the user-creation action is never
\* invoked in that run, create_namespace is left at IN_PROGRESS, and the run
\* ends by raising with deployment_status FAILED (written by the except
\* clause, unless that write itself raises).
C16_TransportFailureAborts ==
  /\ Cardinality(Invocations("create_namespace")) <= 1
  /\ Cardinality(Invocations("create_user")) <= 1
  /\ NamespaceInvokeRaised =>
       /\ Cardinality(Invocations("create_namespace")) = 1
       /\ Invocations("create_user") = {}
       /\ pc \in {"I_except", "idle", "next_record"}
       /\ store[depID].create_namespace = "IN_PROGRESS"
       /\ pc # "I_except" =>
            /\ InsertRunEnded
            /\ outcome.result = "raised"
            /\ trace[Len(trace)].op = "update" =>
                 /\ trace[Len(trace)] = Call("update", "deployment_status", "FAILED", 0)
                 /\ store[depID].deployment_status = "FAILED"
                 /\ store[depID].details = "InvokeError"
                 /\ outcome.err = "InvokeError"

\* C16 witness: a run ended FAILED after the namespace-creation invoke raised.
C16_Witness ==
  /\ InsertRunEnded
  /\ NamespaceInvokeRaised
  /\ store[depID].deployment_status = "FAILED"
  /\ store[depID].create_namespace = "IN_PROGRESS"

\* Store writes (attempted or done) of the current run, in call order.
StoreWrites == {i \in DOMAIN trace : trace[i].op \in {"update", "update_raises"}}
FirstStoreWrite == CHOOSE i \in StoreWrites : \A j \in StoreWrites : i <= j
RemovalInvocations == Invocations("remove_user") \cup Invocations("remove_namespace")

\* C17 (as stated): every run of the teardown workflow that returns has
\* cleanup_status = IN_PROGRESS as its first store write, runs where neither
\* created_user nor created_namespace is true included.
C17_InProgressIsFirstWrite ==
  (RemoveRunEnded /\ outcome.result = "returned") =>
    /\ StoreWrites # {}
    /\ IsUpdateOf(trace[FirstStoreWrite], "cleanup_status", "IN_PROGRESS")

\* C17 (amended): a teardown run writes cleanup_status = IN_PROGRESS directly
\* before each removal action it invokes, so its first store write is
\* IN_PROGRESS and precedes every removal and the COMPLETED write; a run in
\* which neither created_user nor created_namespace is true invokes nothing,
\* writes no IN_PROGRESS, and its first store write is COMPLETED.
C17_InProgressBeforeEachRemoval ==
  /\ \A i \in RemovalInvocations :
       /\ PrecededByWrite(i, "cleanup_status", "IN_PROGRESS")
       /\ IsUpdateOf(trace[FirstStoreWrite], "cleanup_status", "IN_PROGRESS")
       /\ FirstStoreWrite < i
       /\ \A k \in StoreWrites :
            IsUpdateOf(trace[k], "cleanup_status", "COMPLETED") => FirstStoreWrite < k
  /\ (RemoveRunEnded /\ outcome.result = "returned" /\ RemovalInvocations = {}) =>
       /\ ~created_user /\ ~created_namespace
       /\ trace = <<Call("get_item", "state", "returned", 0),
                    Call("update", "cleanup_status", "COMPLETED", 0)>>

\* C17 witness: a teardown run that invoked the namespace removal and returned
\* after writing COMPLETED.
C17_Witness ==
  /\ RemoveRunEnded
  /\ outcome.result = "returned"
  /\ Invocations("remove_namespace") # {}
  /\ store[depID].cleanup_status = "COMPLETED"

\* C18: in any run of process_remove where both created_user and
\* created_namespace are true, the user-removal action has been invoked and
\* has returned before the namespace-removal action is invoked.
C18_ReverseOrderOfCreation ==
  \A j \in Invocations("remove_namespace") :
    (created_user /\ created_namespace) =>
      \E i \in Invocations("remove_user") : i < j /\ trace[i].status = "returned"

\* C18 witness: both flags true and both removal actions invoked in one run.
C18_Witness ==
  /\ created_user /\ created_namespace
  /\ Invocations("remove_user") # {}
  /\ Invocations("remove_namespace") # {}

\* The record lookup of the current teardown run returned.
LookupReturned ==
  trace # <<>> /\ trace[1] = Call("get_item", "state", "returned", 0)
\* The removal action of a step is applicable when its flag was read true.
RemovalApplies(name) ==
  IF name = "remove_user" THEN created_user ELSE created_namespace
\* Every applicable removal action was invoked and handed back a result.
AllApplicableReturned ==
  \A name \in {"remove_user", "remove_namespace"} :
    RemovalApplies(name) =>
      \E i \in Invocations(name) : trace[i].status = "returned"

\* C19: whenever every applicable removal invocation of a teardown run
\* returns a result, whatever its statusCode, and no store call fails,
\* process_remove writes cleanup_status = COMPLETED as its last write and
\* returns without raising; COMPLETED is never written before every
\* applicable removal action has been invoked.
C19_CompletesOnAttempt ==
  /\ (RemoveRunEnded /\ LookupReturned /\ AllApplicableReturned /\ NoStoreFailure) =>
       /\ outcome.result = "returned"
       /\ trace[Len(trace)] = Call("update", "cleanup_status", "COMPLETED", 0)
       /\ store[depID].cleanup_status = "COMPLETED"
  /\ \A k \in StoreWrites :
       IsUpdateOf(trace[k], "cleanup_status", "COMPLETED") =>
         \A name \in {"remove_user", "remove_namespace"} :
           RemovalApplies(name) => \E i \in Invocations(name) : i < k

\* C19 witness: a teardown run returned with COMPLETED although the
\* namespace-removal action handed back a non-200 statusCode.
C19_Witness ==
  /\ RemoveRunEnded
  /\ outcome.result = "returned"
  /\ \E i \in Invocations("remove_namespace") :
       trace[i].status = "returned" /\ trace[i].code # 200
  /\ store[depID].cleanup_status = "COMPLETED"

\* C20: if an operation of process_remove raises (store lookup, missing
\* event or record field, removal invocation), cleanup_status is recorded
\* FAILED with the error text, COMPLETED is not written in that run, no
\* removal action is invoked after the error, and the error is re-raised.
\* Stated for runs in which no store call fails.
C20_TeardownErrorHandling ==
  (RemoveRunEnded /\ outcome.result = "raised" /\ NoStoreFailure) =>
    /\ store[outcome.dep].cleanup_status = "FAILED"
    /\ store[outcome.dep].details = exc
    /\ outcome.err = exc
    /\ trace # <<>>
    /\ trace[Len(trace)] = Call("update", "cleanup_status", "FAILED", 0)
    /\ \A k \in StoreWrites : ~IsUpdateOf(trace[k], "cleanup_status", "COMPLETED")
    /\ \A i \in RemovalInvocations :
         trace[i].status = "raised" => \A j \in RemovalInvocations : j <= i

\* Positions of the worker inside process_remove.
RemovePcs == {"R_parse", "R_user_status", "R_user_invoke", "R_ns_status",
              "R_ns_invoke", "R_completed", "R_except"}
\* The attributes process_remove may set: the step it names, details,
\* updated_at, and the key of the upserted item.
TeardownWrites == {"cleanup_status", "details", "updated_at", "depID"}

\* One step taken inside process_remove keeps the teardown frame.
TeardownStepKeepsFrame ==
  pc \in RemovePcs =>
    /\ \A d \in DepIDs : \A f \in DOMAIN EmptyItem \ TeardownWrites :
         store'[d][f] = store[d][f]
    /\ Cardinality(Invocations("remove_user")') <= 1
    /\ Cardinality(Invocations("remove_namespace")') <= 1

\* C21: every step of process_remove leaves created_user, created_namespace,
\* create_user, create_namespace and deployment_status (every attribute other
\* than cleanup_status, details, updated_at and the key) as they were, in
\* every outcome, and a run invokes each removal action at most once.
C21_TeardownFrame == [][TeardownStepKeepsFrame]_vars

\* C21 witness: a teardown run ended FAILED after its user-removal invoke
\* raised, with the creation flags and step statuses still in the record.
C21_Witness ==
  /\ RemoveRunEnded
  /\ outcome.result = "raised"
  /\ \E i \in Invocations("remove_user") : trace[i].status = "raised"
  /\ store[depID].cleanup_status = "FAILED"
  /\ store[depID].created_user = "True"
  /\ store[depID].create_user = "SUCCESS"

\* C22 (as stated): a failure while processing one record of a batch does not
\* prevent the later records of the same batch from being attempted: when a
\* run raises, no record of its batch is left unattempted.
C22_FailureDoesNotSkipBatch ==
  outcome.result = "raised" => outcome.skipped = 0

\* A step that ends a workflow run.
RunEnds == outcome' # outcome /\ outcome'.kind # "none"
\* How lambda_handler's loop goes on over one step.
BatchStep ==
  /\ (RunEnds /\ outcome'.result = "raised") =>
       /\ pc' = "idle"
       /\ remaining' = 0
       /\ outcome'.skipped = remaining - 1
       /\ outcome'.err # NoErr
  /\ (RunEnds /\ outcome'.result = "returned") =>
       /\ pc' = "next_record"
       /\ remaining' = remaining - 1
       /\ outcome'.skipped = 0
  /\ handled' # handled =>
       /\ pc = "next_record"
       /\ remaining > 0
       /\ handled' = handled + 1
       /\ record'.eventName = "INSERT" => pc' = "I_parse"
       /\ record'.eventName = "REMOVE" => pc' = "R_parse"

\* C22 (amended): the records of a batch are dispatched one at a time in
\* batch order, each INSERT/REMOVE to its workflow; a run that returns lets
\* the loop go on with the next record, and a run that raises is propagated
\* out of lambda_handler at once, so the later records of that batch are not
\* attempted in that invocation.
C22_FailureAbortsBatch == [][BatchStep]_vars

\* C22 witness: the first record of a two-record batch raised and the second
\* record was left unattempted.
C22_Witness ==
  /\ outcome.result = "raised"
  /\ outcome.skipped = 1
  /\ pc = "idle"
  /\ remaining = 0

\* C23: when two workers interleave update_deployment_state calls for
\* different step names of one depID, in every interleaving the record holds,
\* for every step name, the status last written for it (no worker's update
\* removes or reverts a step field written by the other); updated_at and
\* details are those of the update_item applied last.
C23_FieldLevelUpdates ==
  \A d \in DepIDs :
    /\ \A step \in UpdSteps : store[d][step] = up.written[step]
    /\ up.last # NoCall =>
         /\ store[d].updated_at = up.last.t
         /\ up.last.details # NoBody => store[d].details = up.last.details

\* C23 witness: w1 read the clock before w2 did but its update_item was
\* applied after w2's, and the record holds the steps of both workers.
C23_Witness ==
  /\ up.last.w = "w1"
  /\ up.before.w = "w2"
  /\ up.last.t < up.before.t
  /\ store["d1"][up.last.step] = up.last.status
  /\ store["d1"][up.before.step] = up.before.status
  /\ store["d1"].updated_at < up.prev.updated_at

\* Two calls with the same step, status and details.
SameCall(a, b) ==
  a.step = b.step /\ a.status = b.status /\ a.details = b.details
\* An item without its updated_at.
IgnoringTime(it) == [it EXCEPT !.updated_at = AbsentTime]

\* C24: for any step and details, a call update_deployment_state(depID, step,
\* "SUCCESS", details) applied right after the same call leaves the record
\* as that first call left it, except for updated_at; and a call for an
\* absent depID creates the record, holding the step, updated_at and details.
C24_IdempotentSuccess ==
  \A d \in DepIDs :
    /\ (up.before # NoCall /\ SameCall(up.last, up.before)
          /\ up.last.status = "SUCCESS") =>
         IgnoringTime(store[d]) = IgnoringTime(up.prev)
    /\ (up.last # NoCall /\ up.prev = EmptyItem) =>
         store[d] = [EmptyItem EXCEPT !.depID = Present,
                                      ![up.last.step] = up.last.status,
                                      !.updated_at = up.last.t,
                                      !.details = IF up.last.details = NoBody
                                                    THEN Absent
                                                    ELSE up.last.details]

\* C24 witness: a SUCCESS update with details was applied twice in a row, the
\* second at a later time, on a record the first of them had created.
C24_Witness ==
  /\ up.before # NoCall
  /\ SameCall(up.last, up.before)
  /\ up.last.status = "SUCCESS"
  /\ up.last.details # NoBody
  /\ up.last.t > up.before.t
  /\ store["d1"].updated_at # up.prev.updated_at
  /\ up.n = 2

\* C27 (as stated): after an update with details d1 and a later update with
\* other details d2, the record retains d1 together with d2 (what is stored
\* is not d2 alone); an update without details leaves the stored details
\* unchanged.
C27_DetailsAppended ==
  \A d \in DepIDs :
    /\ (up.before.details # NoBody /\ up.last.details # NoBody
          /\ up.last.details # up.before.details) =>
         store[d].details # up.last.details
    /\ (up.last # NoCall /\ up.last.details = NoBody) =>
         store[d].details = up.prev.details

\* C27 (amended): an update with details replaces the stored details by the
\* text given, whatever was stored before; an update without details leaves
\* the stored details unchanged.
C27_DetailsReplaced ==
  \A d \in DepIDs :
    /\ up.last.details # NoBody => store[d].details = up.last.details
    /\ (up.last # NoCall /\ up.last.details = NoBody) =>
         store[d].details = up.prev.details

\* C27 witness: an update with details text2 was applied to a record holding
\* text1, written by the update before it.
C27_Witness ==
  /\ up.before.details = "text1"
  /\ up.prev.details = "text1"
  /\ up.last.details = "text2"
  /\ store["d1"].details = "text2"

\* The user-creation action has just been invoked with user_payload.
UserPayloadSent ==
  /\ trace # << >>
  /\ trace[Len(trace)].op = "invoke"
  /\ trace[Len(trace)].name = "create_user"

\* C25: across any sequence of INSERT events of one lab, the namespace_roles
\* sent in a deployment's user-creation payload are the lab's configured
\* roles, followed by the admin-role entry for the deployment's own petname
\* exactly when its own namespace step returned 200; no admin-role entry
\* appended during another deployment's run is ever sent.
C25_DerivedRoleIsolation ==
  UserPayloadSent =>
    user_payload = LabRoles \o (IF ReturnedWith("create_namespace", 200)
                                  THEN <<AdminRole(petname)>> ELSE << >>)

\* The current provisioning run met a configuration error.
ConfigErrors == {"EnvError", "LabInfoError"}
ConfigFailed ==
  /\ exc \in ConfigErrors
  /\ pc = "I_except" \/ InsertRunEnded

\* C26: when a required environment variable is missing or the lab
\* configuration cannot be obtained, process_insert invokes no provisioning
\* action and writes no create_namespace or create_user status, records
\* deployment_status FAILED with the error (when that write goes through) and
\* raises; a worker whose environment is incomplete never invokes a
\* provisioning action at all.
C26_ConfigErrorsAreFatal ==
  /\ ~envOK => Invocations("create_namespace") \cup Invocations("create_user") = {}
  /\ ConfigFailed =>
       /\ Invocations("create_namespace") \cup Invocations("create_user") = {}
       /\ \A i \in DOMAIN trace : trace[i].name \notin {"create_namespace", "create_user"}
       /\ InsertRunEnded =>
            /\ outcome.result = "raised"
            /\ trace[Len(trace)].op = "update" =>
                 /\ store[depID].deployment_status = "FAILED"
                 /\ store[depID].details = exc
                 /\ outcome.err = exc

\* C26 witness: a provisioning run on a worker with an incomplete environment
\* ended by raising, with deployment_status FAILED recorded.
C26_Witness ==
  /\ ~envOK
  /\ InsertRunEnded
  /\ exc = "EnvError"
  /\ outcome.result = "raised"
  /\ outcome.err = "EnvError"
  /\ store[depID].deployment_status = "FAILED"

\* A step that dispatches a record whose eventName is neither INSERT nor REMOVE.
DispatchesOther ==
  /\ handled' # handled
  /\ record'.eventName \notin {"INSERT", "REMOVE"}
\* One step of lambda_handler's dispatch.
DispatchStep ==
  /\ (handled' # handled /\ record'.eventName = "INSERT") => pc' = "I_parse"
  /\ (handled' # handled /\ record'.eventName = "REMOVE") => pc' = "R_parse"
  /\ pc' = "I_parse" => (handled' # handled /\ record'.eventName = "INSERT")
  /\ pc' = "R_parse" => (handled' # handled /\ record'.eventName = "REMOVE")
  /\ DispatchesOther =>
       /\ pc' = "next_record"
       /\ remaining' = remaining - 1
       /\ UNCHANGED <<store, now, locals, trace, outcome, ghosts>>

\* C28: lambda_handler starts the provisioning workflow only for a record
\* with eventName INSERT and the teardown workflow only for REMOVE; for a
\* record of any other kind (the MODIFY records of the worker's own updates)
\* it makes no store write and no invocation and goes on with the batch.
C28_DispatchIsExclusive == [][DispatchStep]_vars

\* C28 witness: a MODIFY record was dispatched after a provisioning run had
\* returned, and nothing was run for it.
C28_Witness ==
  /\ record.eventName = "MODIFY"
  /\ pc = "next_record"
  /\ handled = 2
  /\ outcome.kind = "insert"
  /\ outcome.result = "returned"

\* main has returned its result.
OrgRunEnded == org.pc = "done"

\* C29: main returns statusCode 200 only if a demo org was created, its
\* post-creation probe succeeded and its org_id was recorded in the state
\* table; whenever org creation or the probe fails the statusCode is not 200.
C29_Status200OnlyOnSuccess ==
  (OrgRunEnded /\ org.statusCode = 200) =>
    /\ org.remote_org
    /\ org.probe_ok
    /\ org.recorded # NoOrgId
    /\ org.recorded = org.remote_id

\* C30: in every run of main in which the org-creation POST succeeded
\* (status < 400, so an org exists remotely), the org's id has been written
\* to the state table when main returns, also when the post-creation probe
\* ended in a non-retryable failure or exhausted its retries.
C30_NoOrphanedOrg ==
  (OrgRunEnded /\ org.remote_org) => org.recorded = org.remote_id

\* The state records that match the tagged email and petname.
Matching == {o \in Orgs : del.table[o] # NoPage}
DelRunEnded == del.pc = "done"

\* C31: delete_function.main issues the remote delete request only when
\* exactly one state record matches the tagged email and petname, and then
\* exactly once and for that record's org_id; when its lookup has run, zero
\* matches give statusCode 404 and two or more give 500, both without a
\* delete request, and one match gives 200 if the delete response status is
\* < 400 and 500 otherwise; a run that fails before or during the lookup
\* gives 500 without a delete request; main never raises to its caller:
\* every run ends by returning one of these three results.
C31_DeleteOnlyOnSingleMatch ==
  /\ DelRunEnded => del.statusCode \in {200, 404, 500}
  /\ del.deletes # << >> =>
       /\ Cardinality(Matching) = 1
       /\ del.deletes = <<CHOOSE o \in Matching : TRUE>>
  /\ (DelRunEnded /\ del.looked) =>
       /\ Matching = {} => (del.statusCode = 404 /\ del.deletes = << >>)
       /\ Cardinality(Matching) >= 2 => (del.statusCode = 500 /\ del.deletes = << >>)
       /\ Cardinality(Matching) = 1 =>
            /\ Len(del.deletes) = 1
            /\ del.statusCode = IF del.response # RequestException /\ del.response < 400
                                  THEN 200 ELSE 500
  /\ (DelRunEnded /\ ~del.looked) =>
       (del.statusCode = 500 /\ del.deletes = << >>)

\* C31 witness: the only matching record lay on the second page of the scan,
\* its org was deleted with one request and main returned 200.
C31_Witness ==
  /\ DelRunEnded
  /\ Cardinality(Matching) = 1
  /\ \E o \in Matching : del.table[o] = MaxPages /\ del.deletes = <<o>>
  /\ del.statusCode = 200

====
